---- MODULE Spec2Model ----
(***************************************************************************)
(* Model of the two diff-analysis scripts of agapius/github-ai-workflow:   *)
(*   code_check.py               (git diff -> prompt files -> OpenAI)      *)
(*   code_conventions_checker.py (git diff HEAD -> built-in prompt)        *)
(* and of the cost estimator calculate_cost / MODEL_PRICING.               *)
(*                                                                         *)
(* Money is kept in fixed point.  MODEL_PRICING holds hundredths of a      *)
(* dollar per 1,000,000 tokens, so tokens * rate is the exact cost in      *)
(* units of 10^-8 dollar and round(total_cost, 6) is the division of that  *)
(* number by 100, rounded to the nearest integer number of micro-dollars.  *)
(* The code computes in binary floating point: on an exact half the sign   *)
(* of the representation error decides the direction, so the direction of  *)
(* a tie is an input of Round6 that the specifications choose freely.      *)
(***************************************************************************)
EXTENDS Integers, Sequences, FiniteSets, TLC

\* ---------------------------------------------------------------- bounds
NumPaths == 2
MaxTokens == 3
MaxTreeChanges == 1

\* ------------------------------------------------------------- constants
MILLION == 1000000
DECIMALS == 6

\* ------------------------------------------------------- model_pricing.py
MODEL_PRICING ==
  [m \in {"gpt-4.1", "gpt-4.1-mini", "gpt-4.1-nano", "gpt-4o", "gpt-4o-mini"} |->
     CASE m = "gpt-4.1"      -> [prompt |-> 200, completion |-> 800]
       [] m = "gpt-4.1-mini" -> [prompt |-> 40,  completion |-> 160]
       [] m = "gpt-4.1-nano" -> [prompt |-> 10,  completion |-> 40]
       [] m = "gpt-4o"       -> [prompt |-> 250, completion |-> 1000]
       [] m = "gpt-4o-mini"  -> [prompt |-> 15,  completion |-> 60]]

\* Model identifiers the command line may carry: the table's keys and two
\* identifiers the table does not know.
ModelNames == DOMAIN MODEL_PRICING \cup {"gpt-3.5-turbo", "o3"}

\* Token counts of a CompletionUsage.
Tokens == 0..MaxTokens \cup {MILLION}

Pow10(n) == IF n = 6 THEN 1000000 ELSE IF n = 4 THEN 10000 ELSE 1

\* 10^-8 dollar per micro-dollar digit kept: round(x, 6) keeps micro-dollars.
RoundUnit(ndigits) == (MILLION * 100) \div Pow10(ndigits)

\* (mutant) the fallback names another entry of the table.
PricingGetDefaultMini(model_name) ==
  IF model_name \in DOMAIN MODEL_PRICING
    THEN MODEL_PRICING[model_name]
    ELSE MODEL_PRICING["gpt-4o-mini"]

\* MODEL_PRICING.get(model_name, MODEL_PRICING["gpt-4o"])
PricingGet(model_name) ==
  IF model_name \in DOMAIN MODEL_PRICING
    THEN MODEL_PRICING[model_name]
    ELSE MODEL_PRICING["gpt-4o"]

\* (mutant) the two rates are taken the wrong way round.
TotalCostSwapped(usage, model_name) ==
  usage.prompt_tokens * PricingGet(model_name).completion
    + usage.completion_tokens * PricingGet(model_name).prompt

\* (mutant) the token counts are reduced modulo 1_000_000 instead of divided.
TotalCostModulo(usage, model_name) ==
  (usage.prompt_tokens % MILLION) * PricingGet(model_name).prompt
    + (usage.completion_tokens % MILLION) * PricingGet(model_name).completion

\* (mutant) the completion cost is subtracted instead of added.
TotalCostMinus(usage, model_name) ==
  usage.prompt_tokens * PricingGet(model_name).prompt
    - usage.completion_tokens * PricingGet(model_name).completion

\* prompt_cost + completion_cost, exact, in 10^-8 dollar.
TotalCost(usage, model_name) ==
  usage.prompt_tokens * PricingGet(model_name).prompt
    + usage.completion_tokens * PricingGet(model_name).completion

\* round(total_cost, ndigits): the result in units of 10^-ndigits dollar.
\* tie_up is the direction an exact half takes.
Round(total, ndigits, tie_up) ==
  LET u == RoundUnit(ndigits)
  IN  IF (total % u) = u \div 2 /\ u % 2 = 0
        THEN (total \div u) + (IF tie_up THEN 1 ELSE 0)
        ELSE (total + (u \div 2)) \div u

\* calculate_cost: micro-dollars.
calculate_cost(usage, model_name, tie_up) ==
  Round(TotalCost(usage, model_name), DECIMALS, tie_up)

\* ------------------------------------------------- the git working tree
\* What git reports about one path:
\*   clean      not part of the diff
\*   modified   differs from HEAD, HEAD holds non-empty text
\*   emptyhead  differs from HEAD, HEAD holds an empty file
\*   added      in the diff but absent from HEAD (git show HEAD:path fails)
\*   deleted    removed from the working tree ("deleted file mode" in the diff)
FileStatus == {"clean", "modified", "emptyhead", "added", "deleted"}

PathNames == <<"a.py", "b.py", "c.py", "d.py", "e.py">>
Paths == {PathNames[i] : i \in 1..NumPaths}
Trees == [Paths -> FileStatus]

\* Exit statuses a git subprocess may end with.
GitStatuses == {0, 1, 128}

RECURSIVE ChangedFrom(_, _)
ChangedFrom(t, i) ==
  IF i > NumPaths THEN <<>>
  ELSE (IF t[PathNames[i]] # "clean" THEN <<PathNames[i]>> ELSE <<>>)
         \o ChangedFrom(t, i + 1)

\* stdout of `git diff --name-only`, split into lines.
NameOnly(t) == ChangedFrom(t, 1)

DiffHeader(st) ==
  CASE st = "deleted" -> "deleted file"
    [] st = "added"   -> "new file"
    [] OTHER          -> "index"

\* (mutant) the diff leaves out added and deleted files.
DiffTextModifiedOnly(t) ==
  SelectSeq([i \in 1..Len(NameOnly(t)) |->
               [path |-> NameOnly(t)[i], header |-> DiffHeader(t[NameOnly(t)[i]])]],
            LAMBDA e : e.header = "index")

\* stdout of `git diff`: one hunk group per changed path.
DiffText(t) ==
  [i \in 1..Len(NameOnly(t)) |->
     [path |-> NameOnly(t)[i], header |-> DiffHeader(t[NameOnly(t)[i]])]]

\* 'deleted file' in diff
HasDeletedFile(d) == \E i \in 1..Len(d) : d[i].header = "deleted file"

\* os.path.exists(file_path)
PathExists(t, path) == t[path] # "deleted"

\* `git show HEAD:path`: exit status and stdout.
GitShow(t, path) ==
  CASE t[path] = "added"     -> [returncode |-> 128, stdout |-> ""]
    [] t[path] = "emptyhead" -> [returncode |-> 0,   stdout |-> ""]
    [] OTHER                 -> [returncode |-> 0,   stdout |-> "HEAD:" \o path]

\* get_file_content: "" when git show exits non-zero.
get_file_content(t, path) ==
  IF GitShow(t, path).returncode # 0 THEN "" ELSE GitShow(t, path).stdout

\* file_contexts is a dict kept in insertion order: a sequence of FileContext.
Keys(fcs) == {fcs[i].path : i \in 1..Len(fcs)}

\* (mutant) the entry is stored under the content instead of the path.
DictSetKeyedByContent(fcs, path, content) ==
  Append(fcs, [path |-> content, content |-> path])

\* file_contexts[file_path] = FileContext(file_path, content)
DictSet(fcs, path, content) ==
  IF path \in Keys(fcs)
    THEN [i \in 1..Len(fcs) |->
            IF fcs[i].path = path THEN [path |-> path, content |-> content]
            ELSE fcs[i]]
    ELSE Append(fcs, [path |-> path, content |-> content])

\* `not analysis.diff_content` / `not diff_text.strip()`: the diff is empty.
DiffIsEmpty(d) == Len(d) = 0

\* ------------------------------------------------------------- the state
VARIABLES
  script,        \* which script runs: "code_check" or "conventions_checker"
  api_key_flag,  \* --api-key ("" when not given)
  api_key_env,   \* OPENAI_API_KEY ("" when not set)
  model_name,    \* --model
  debug,         \* --debug (code_check.py only)
  git_installed, \* the git executable is on PATH
  tree,          \* the working tree as git sees it now
  tree_changes,  \* number of times the tree changed during the run
  pc,            \* position of the run
  files,         \* files_changed
  diff,          \* diff_content / diff_text
  file_contexts, \* file_contexts
  idx,           \* position of the for loop over files
  merge_base_sha,\* result of get_merge_base_with_branch
  prompt,        \* the assembled prompt
  result,        \* what analyze_diff / analyze_with_llm returned
  usage,         \* token counts of the completion
  tie_up,        \* direction of an exact half in round()
  cost,          \* calculate_cost's result, micro-dollars
  lower,         \* an earlier calculate_cost call with lower token counts
  raised,        \* the exception that ended the run, "" when none
  git_log,       \* the git commands run so far, each with its exit status
  api_outcome,   \* how the chat-completion request ended: "", "ok", "error"
  stdout,        \* the lines printed, in order
  exit_code,     \* process exit status, -1 while running
  api_calls,     \* calls of client.chat.completions.create
  stages         \* the pipeline stages completed, in order

vars == <<script, api_key_flag, api_key_env, model_name, debug, git_installed,
          tree, tree_changes, pc, files, diff, file_contexts, idx,
          merge_base_sha, prompt, result, usage, tie_up, cost, lower, raised,
          git_log, api_outcome, stdout, exit_code, api_calls, stages>>

args == <<script, api_key_flag, api_key_env, model_name, debug, git_installed>>
collected == <<files, diff, file_contexts, idx, merge_base_sha>>
collection == <<collected, git_log>>
reported == <<usage, tie_up, cost>>

Scripts == {"code_check", "conventions_checker"}
KeyValues == {"", "sk-test"}
\* The model a run is started with: one the table does not know, so that the
\* report goes through the fallback; SpecCost applies calculate_cost to every
\* identifier of ModelNames.
RunModels == {"gpt-3.5-turbo"}

\* Token counts a completion of a run reports; calculate_cost is applied to
\* every count of Tokens in SpecCost.
RunTokens == {1, MILLION}

NoPrompt == [template |-> "", diff |-> <<>>, files_content |-> <<>>]
NoResult == [kind |-> "none", text |-> ""]
NoUsage == [prompt_tokens |-> 0, completion_tokens |-> 0]
NoLower == [usage |-> NoUsage, cost |-> 0]

Say(line) == Append(stdout, line)

\* A git subprocess ended: status -1 stands for an executable that is missing,
\* out is "" or the label of what it wrote to its stdout.
Ran(cmd, path, rc, out) ==
  Append(git_log, [cmd |-> cmd, path |-> path, rc |-> rc, out |-> out])
SayAll(lines) == stdout \o lines

\* State every run starts from: nothing collected, nothing printed.
RunInit ==
  /\ tree_changes = 0
  /\ files = <<>>
  /\ diff = <<>>
  /\ file_contexts = <<>>
  /\ idx = 0
  /\ merge_base_sha = ""
  /\ prompt = NoPrompt
  /\ result = NoResult
  /\ cost = 0
  /\ lower = NoLower
  /\ raised = ""
  /\ git_log = <<>>
  /\ api_outcome = ""
  /\ stdout = <<>>
  /\ exit_code = -1
  /\ api_calls = 0
  /\ stages = <<>>

Init ==
  /\ script \in Scripts
  /\ api_key_flag \in KeyValues
  /\ api_key_env \in KeyValues
  /\ model_name \in RunModels
  /\ debug \in (IF script = "code_check" THEN BOOLEAN ELSE {FALSE})
  /\ git_installed \in BOOLEAN
  /\ tree \in Trees
  /\ pc = "start"
  /\ usage = NoUsage
  /\ tie_up = FALSE
  /\ RunInit

\* The run ends: the process exits with `code`.
Exit(code, exc, lines) ==
  /\ pc' = "done"
  /\ exit_code' = code
  /\ raised' = exc
  /\ stdout' = SayAll(lines)

\* ------------------------------------------------------- code_check.py
\* The handlers of __main__ (lines 218-221): every exception is printed and
\* the script then falls off its end, which is exit status 0.
MainExceptStatus == 0

MainExcept(exc, text, lines) ==
  Exit(MainExceptStatus, exc,
       lines \o <<IF exc \in {"ValueError", "ConnectionError", "CalledProcessError"}
                    THEN "An error occurred: " \o text
                    ELSE "An unexpected error occurred: " \o text>>)

\* __main__ reads result.choices of a str returned by analyze_diff.
StrHasNoChoices == "'str' object has no attribute 'choices'"

\* (mutant) the check lets an absent key through.
KeyMissingNever(key) == FALSE

\* `not api_key`
KeyMissing(key) == key = ""

\* api_key = api_key or os.getenv("OPENAI_API_KEY")
ApiKey == IF api_key_flag # "" THEN api_key_flag ELSE api_key_env

GitMissing == "[Errno 2] No such file or directory: 'git'"

\* analyze_diff, lines 145-148: the credential check.
CC_check_key ==
  /\ script = "code_check" /\ pc = "start"
  /\ IF KeyMissing(ApiKey)
       THEN MainExcept("ValueError",
              "OPENAI_API_KEY not found in environment variables or provided via --api-key argument",
              <<>>)
       ELSE pc' = "client" /\ UNCHANGED <<exit_code, raised, stdout>>
  /\ UNCHANGED <<args, lower, tree, tree_changes, collection, prompt, result, reported,
                 api_outcome, api_calls, stages>>

\* analyze_diff, lines 149-155: the client is built; building it may fail.
CC_client_init ==
  /\ script = "code_check" /\ pc = "client"
  /\ \E ok \in BOOLEAN :
       IF ok
         THEN /\ pc' = "changed_files"
              /\ stdout' = Say("Collecting diff context...")
              /\ UNCHANGED <<exit_code, raised>>
         ELSE MainExcept("ConnectionError", "Failed to initialize OpenAI client", <<>>)
  /\ UNCHANGED <<args, lower, tree, tree_changes, collection, prompt, result, reported,
                 api_outcome, api_calls, stages>>

\* get_changed_files: check=True, any non-zero status raises.
CC_get_changed_files ==
  /\ script = "code_check" /\ pc = "changed_files"
  /\ IF ~git_installed
       THEN /\ MainExcept("FileNotFoundError", GitMissing, <<>>)
            /\ git_log' = Ran("diff --name-only", "", -1, "")
            /\ UNCHANGED files
       ELSE \E rc \in GitStatuses :
              /\ git_log' = Ran("diff --name-only", "", rc, "")
              /\ IF rc # 0
                   THEN /\ MainExcept("CalledProcessError",
                             "Command 'git diff --name-only' returned non-zero exit status",
                             <<"Error running git diff --name-only">>)
                        /\ UNCHANGED files
                   ELSE /\ files' = NameOnly(tree)
                        /\ pc' = "git_diff"
                        /\ UNCHANGED <<exit_code, raised, stdout>>
  /\ UNCHANGED <<args, lower, tree, tree_changes, diff, file_contexts, idx,
                 merge_base_sha, prompt, result, reported, api_outcome,
                 api_calls, stages>>

\* get_git_diff: check=True, any non-zero status raises.
CC_get_git_diff ==
  /\ script = "code_check" /\ pc = "git_diff"
  /\ IF ~git_installed
       THEN /\ MainExcept("FileNotFoundError", GitMissing, <<>>)
            /\ git_log' = Ran("diff", "", -1, "")
            /\ UNCHANGED <<diff, idx>>
       ELSE \E rc \in GitStatuses :
              /\ git_log' = Ran("diff", "", rc, "")
              /\ IF rc # 0
                   THEN /\ MainExcept("CalledProcessError",
                             "Command 'git diff' returned non-zero exit status", <<>>)
                        /\ UNCHANGED <<diff, idx>>
                   ELSE /\ diff' = DiffText(tree)
                        /\ idx' = 1
                        /\ pc' = "loop"
                        /\ UNCHANGED <<exit_code, raised, stdout>>
  /\ UNCHANGED <<args, lower, tree, tree_changes, files, file_contexts,
                 merge_base_sha, prompt, result, reported, api_outcome,
                 api_calls, stages>>

\* The condition of line 76.
FetchWanted(t, d, file_path) == PathExists(t, file_path) \/ ~HasDeletedFile(d)

\* (mutant) an entry is made whatever was retrieved.
ContextKeptAlways(content) == TRUE

\* The guard of line 78: only non-empty content makes an entry.
ContextKept(content) == content # ""

\* collect_diff_context, lines 73-81: one round of the loop over files.
CC_fetch_context ==
  /\ script = "code_check" /\ pc = "loop" /\ idx <= Len(files)
  /\ LET file_path == files[idx]
         content == get_file_content(tree, file_path)
     IN  IF FetchWanted(tree, diff, file_path)
           THEN /\ git_log' = Ran("show", file_path, GitShow(tree, file_path).returncode,
                                    GitShow(tree, file_path).stdout)
                /\ file_contexts' =
                     IF ContextKept(content)
                       THEN DictSet(file_contexts, file_path, content)
                       ELSE file_contexts
                /\ stdout' =
                     IF GitShow(tree, file_path).returncode # 0
                       THEN Say("Warning: Could not get content for " \o file_path
                                  \o " at HEAD. Might be a new or binary file.")
                       ELSE stdout
           ELSE /\ stdout' = Say("Skipping content fetch for potentially deleted file: "
                                   \o file_path)
                /\ UNCHANGED <<file_contexts, git_log>>
  /\ idx' = idx + 1
  /\ UNCHANGED <<args, lower, tree, tree_changes, pc, files, diff, merge_base_sha,
                 prompt, result, reported, raised, api_outcome, exit_code,
                 api_calls, stages>>

NoChangesText == "No changes detected by git diff."

\* collect_diff_context returns (line 84); analyze_diff, lines 157-160.  A str
\* result makes __main__ fail on result.choices (line 209).
CC_collect_return ==
  /\ script = "code_check" /\ pc = "loop" /\ idx > Len(files)
  /\ stages' = Append(stages, "collect")
  /\ IF DiffIsEmpty(diff)
       THEN /\ result' = [kind |-> "str", text |-> NoChangesText]
            /\ MainExcept("AttributeError", StrHasNoChoices, <<>>)
       ELSE /\ pc' = "prompt"
            /\ stdout' = Say("Creating LLM prompt...")
            /\ UNCHANGED <<result, exit_code, raised>>
  /\ UNCHANGED <<args, lower, tree, tree_changes, collection, prompt, reported,
                 api_outcome, api_calls>>

\* "\n\n".join(... for ctx in analysis.file_contexts.values() if ctx.content)
FilesContent(fcs) ==
  IF SelectSeq(fcs, LAMBDA ctx : ctx.content # "") = <<>>
    THEN <<[path |-> "", content |-> "[No relevant file context could be retrieved from HEAD]"]>>
    ELSE SelectSeq(fcs, LAMBDA ctx : ctx.content # "")

\* code_check.create_llm_prompt: the template that is used and what is
\* interpolated into it.
CC_prompt_of(d, fcs, dbg) ==
  IF dbg
    THEN [template |-> "hardcode_prompt.txt", diff |-> <<>>, files_content |-> <<>>]
    ELSE [template |-> "code_conventions.txt + llm_prompt.txt",
          diff |-> d,
          files_content |-> FilesContent(fcs)]

\* analyze_diff, lines 161-164: the prompt files are read and formatted;
\* a missing file or a bad placeholder raises.
CC_create_llm_prompt ==
  /\ script = "code_check" /\ pc = "prompt"
  /\ \E files_ok \in BOOLEAN :
       IF files_ok
         THEN /\ prompt' = CC_prompt_of(diff, file_contexts, debug)
              /\ stages' = Append(stages, "assemble")
              /\ pc' = "call"
              /\ stdout' = SayAll(<<"Successfully loaded text from: llm_prompt.txt",
                                    "Successfully loaded text from: code_conventions.txt",
                                    "PROMPT:",
                                    "Sending request to OpenAI model: " \o model_name>>)
              /\ UNCHANGED <<exit_code, raised>>
         ELSE /\ MainExcept("FileNotFoundError",
                   "Error: The file was not found in the script directory or the current directory",
                   <<>>)
              /\ UNCHANGED <<prompt, stages>>
  /\ UNCHANGED <<args, lower, tree, tree_changes, collection, result, reported,
                 api_outcome, api_calls>>

ApiErrorText == "Error calling OpenAI API: "

\* What analyze_diff does with an exception of the call (lines 176-178).
CC_api_error_result == [kind |-> "str", text |-> ApiErrorText]

\* (mutant) a failed request is sent a second time before giving up.
CC_call_retrying ==
  /\ script = "code_check" /\ pc = "call"
  /\ \E ok \in BOOLEAN :
       /\ api_calls' = api_calls + (IF ok THEN 1 ELSE 2)
       /\ stages' = stages \o (IF ok THEN <<"call">> ELSE <<"call", "call">>)
       /\ api_outcome' = IF ok THEN "ok" ELSE "error"
       /\ IF ok
         THEN /\ \E p \in RunTokens, c \in RunTokens :
                   usage' = [prompt_tokens |-> p, completion_tokens |-> c]
              /\ result' = [kind |-> "completion", text |-> "analysis"]
              /\ pc' = "report"
              /\ UNCHANGED <<exit_code, raised, stdout>>
         ELSE /\ result' = CC_api_error_result
              /\ MainExcept("AttributeError", StrHasNoChoices, <<>>)
              /\ UNCHANGED usage
  /\ UNCHANGED <<args, lower, tree, tree_changes, collection, prompt, tie_up, cost>>

\* analyze_diff, lines 165-178, and __main__ line 209 for a str result.
CC_call ==
  /\ script = "code_check" /\ pc = "call"
  /\ api_calls' = api_calls + 1
  /\ stages' = Append(stages, "call")
  /\ \E ok \in BOOLEAN :
       /\ api_outcome' = IF ok THEN "ok" ELSE "error"
       /\ IF ok
         THEN /\ \E p \in RunTokens, c \in RunTokens :
                   usage' = [prompt_tokens |-> p, completion_tokens |-> c]
              /\ result' = [kind |-> "completion", text |-> "analysis"]
              /\ pc' = "report"
              /\ UNCHANGED <<exit_code, raised, stdout>>
         ELSE /\ result' = CC_api_error_result
              /\ MainExcept("AttributeError", StrHasNoChoices, <<>>)
              /\ UNCHANGED usage
  /\ UNCHANGED <<args, lower, tree, tree_changes, collection, prompt, tie_up, cost>>

\* Directions an exact half may take for this total.
TieDirections(total) ==
  IF total % RoundUnit(DECIMALS) = RoundUnit(DECIMALS) \div 2 THEN BOOLEAN ELSE {FALSE}

\* __main__, lines 209-217: the report.
CC_report ==
  /\ script = "code_check" /\ pc = "report"
  /\ \E t \in TieDirections(TotalCost(usage, model_name)) :
       /\ tie_up' = t
       /\ cost' = calculate_cost(usage, model_name, t)
       /\ Exit(0, "",
               <<"=== AI Analysis ===", result.text, "=== Cost of Usage ===",
                 "  Prompt Tokens: " \o ToString(usage.prompt_tokens),
                 "  Completion Tokens: " \o ToString(usage.completion_tokens),
                 "  Cost in Dollar: " \o ToString(calculate_cost(usage, model_name, t))
                    \o "e-6">>)
  /\ stages' = Append(stages, "report")
  /\ UNCHANGED <<args, lower, tree, tree_changes, collection, prompt, result, usage,
                 api_outcome, api_calls>>

\* ------------------------------------------- code_conventions_checker.py
\* --api-key defaults to the environment variable (line 371).
CV_api_key == IF api_key_flag # "" THEN api_key_flag ELSE api_key_env

\* __main__, lines 387-391.
CV_check_key ==
  /\ script = "conventions_checker" /\ pc = "start"
  /\ IF KeyMissing(CV_api_key)
       THEN Exit(1, "",
              <<"Error: OpenAI API key not provided. Set OPENAI_API_KEY env var or use --api-key.">>)
       ELSE /\ pc' = "merge_base"
            /\ stdout' = Say("Fetching uncommitted changes against HEAD...")
            /\ UNCHANGED <<exit_code, raised>>
  /\ UNCHANGED <<args, lower, tree, tree_changes, collection, prompt, result, reported,
                 api_outcome, api_calls, stages>>

\* get_merge_base_with_branch and the handler of lines 396-398: a failing
\* rev-parse or merge-base gives None, a missing git ends the run.
CV_get_merge_base ==
  /\ script = "conventions_checker" /\ pc = "merge_base"
  /\ IF ~git_installed
       THEN /\ Exit(1, "FileNotFoundError",
                 <<"Error: 'git' command not found during merge-base lookup.",
                   "Failed to get git diff. Exiting.">>)
            /\ git_log' = Ran("rev-parse", "", -1, "")
            /\ UNCHANGED merge_base_sha
       ELSE \E rc \in GitStatuses :
              /\ git_log' = Ran("merge-base", "", rc, "")
              /\ merge_base_sha' = IF rc # 0 THEN "None" ELSE "sha"
              /\ stdout' = IF rc # 0
                             THEN Say("Warning: Failed to get merge-base")
                             ELSE stdout
              /\ pc' = "git_diff"
              /\ UNCHANGED <<exit_code, raised>>
  /\ UNCHANGED <<args, lower, tree, tree_changes, files, diff, file_contexts, idx,
                 prompt, result, reported, api_outcome, api_calls, stages>>

\* (mutant) only statuses above 128 raise.
CV_status_fails_above128(rc) == rc > 128

\* get_git_diff_against_head, line 315: the statuses that raise.
CV_status_fails(rc) == rc > 1

\* (mutant) the diff is taken against the merge base when one was found.
CV_diff_range_merge_base(sha) == IF sha \in {"", "None"} THEN "HEAD" ELSE sha

\* Line 306: the commit the diff is taken against; merge_base_sha is not used.
CV_diff_range(sha) == "HEAD"

\* stdout of `git diff --no-ext-diff <range>`: against HEAD the uncommitted
\* changes, against an older commit also what the branch committed since.
GitDiffAgainst(range, t) ==
  IF range = "HEAD"
    THEN DiffText(t)
    ELSE <<[path |-> "committed since " \o range, header |-> "index"]>> \o DiffText(t)

\* get_git_diff_against_head and the handler of lines 396-398.
CV_get_git_diff ==
  /\ script = "conventions_checker" /\ pc = "git_diff"
  /\ IF ~git_installed
       THEN /\ Exit(1, "FileNotFoundError",
                 <<"Error: 'git' command not found. Ensure git is installed and in your PATH.",
                   "Failed to get git diff. Exiting.">>)
            /\ git_log' = Ran("diff " \o CV_diff_range(merge_base_sha), "", -1, "")
            /\ UNCHANGED diff
       ELSE \E rc \in GitStatuses :
              /\ git_log' = Ran("diff " \o CV_diff_range(merge_base_sha), "", rc, "")
              /\ IF CV_status_fails(rc)
                   THEN /\ Exit(1, "RuntimeError",
                             <<"Error running 'git diff --no-ext-diff HEAD'",
                               "Failed to get git diff. Exiting.">>)
                        /\ UNCHANGED diff
                   ELSE /\ diff' = GitDiffAgainst(CV_diff_range(merge_base_sha), tree)
                        /\ pc' = "empty_check"
                        /\ UNCHANGED <<exit_code, raised, stdout>>
  /\ UNCHANGED <<args, lower, tree, tree_changes, files, file_contexts, idx,
                 merge_base_sha, prompt, result, reported, api_outcome,
                 api_calls, stages>>

\* code_conventions_checker.create_llm_prompt
CV_prompt_of(d) ==
  [template |-> "KRAKEN_CODE_CONVENTIONS + LLM_INSTRUCTION + GIT DIFF",
   diff |-> d, files_content |-> <<>>]

\* __main__, lines 400-407.
CV_empty_check ==
  /\ script = "conventions_checker" /\ pc = "empty_check"
  /\ stages' = Append(stages, "collect") \o
                 (IF DiffIsEmpty(diff) THEN <<>> ELSE <<"assemble">>)
  /\ IF DiffIsEmpty(diff)
       THEN /\ Exit(0, "", <<"No changes detected to analyze.">>)
            /\ UNCHANGED prompt
       ELSE /\ prompt' = CV_prompt_of(diff)
            /\ pc' = "call"
            /\ stdout' = SayAll(<<"Creating prompt for LLM...",
                                  "Sending request to OpenAI model: " \o model_name>>)
            /\ UNCHANGED <<exit_code, raised>>
  /\ UNCHANGED <<args, lower, tree, tree_changes, collection, result, reported,
                 api_outcome, api_calls>>

\* analyze_with_llm and __main__, lines 408-414.
CV_analyze_with_llm ==
  /\ script = "conventions_checker" /\ pc = "call"
  /\ \E client_ok \in BOOLEAN :
       IF ~client_ok
         THEN /\ Exit(1, "OpenAIError", <<"Failed to get analysis from LLM. Exiting.">>)
              /\ UNCHANGED <<api_calls, stages, result, api_outcome>>
         ELSE /\ api_calls' = api_calls + 1
              /\ \E ok \in BOOLEAN :
                   /\ api_outcome' = IF ok THEN "ok" ELSE "error"
                   /\ IF ok
                     THEN /\ result' = [kind |-> "completion", text |-> "analysis"]
                          /\ stages' = stages \o <<"call", "report">>
                          /\ Exit(0, "", <<"=== AI Code Convention Analysis ===", "analysis">>)
                     ELSE /\ stages' = Append(stages, "call")
                          /\ Exit(1, "APIError",
                                  <<ApiErrorText, "Failed to get analysis from LLM. Exiting.">>)
                          /\ UNCHANGED result
  /\ UNCHANGED <<args, lower, tree, tree_changes, collection, prompt, reported>>

\* ------------------------------------------------------ the environment
\* Another process edits the working tree while the diff is being collected.
CollectingPcs == {"changed_files", "git_diff", "loop", "merge_base"}

TreeChanges ==
  /\ pc \in CollectingPcs
  /\ tree_changes < MaxTreeChanges
  /\ \E path \in Paths, st \in FileStatus :
       /\ st # tree[path]
       /\ tree' = [tree EXCEPT ![path] = st]
  /\ tree_changes' = tree_changes + 1
  /\ UNCHANGED <<args, lower, pc, collection, prompt, result, reported, raised,
                 api_outcome, stdout, exit_code, api_calls, stages>>

Next ==
  \/ CC_check_key
  \/ CC_client_init
  \/ CC_get_changed_files
  \/ CC_get_git_diff
  \/ CC_fetch_context
  \/ CC_collect_return
  \/ CC_create_llm_prompt
  \/ CC_call
  \/ CC_report
  \/ CV_check_key
  \/ CV_get_merge_base
  \/ CV_get_git_diff
  \/ CV_empty_check
  \/ CV_analyze_with_llm
  \/ TreeChanges

Spec == Init /\ [][Next]_vars

\* ------------------------------------------------- calculate_cost alone
\* calculate_cost applied to every usage and model identifier of the bounds.
InitCost ==
  /\ script = "code_check"
  /\ api_key_flag = ""
  /\ api_key_env = ""
  /\ debug = FALSE
  /\ git_installed = TRUE
  /\ tree = [path \in Paths |-> "clean"]
  /\ model_name \in ModelNames
  /\ usage \in [prompt_tokens : Tokens, completion_tokens : Tokens]
  /\ tie_up \in TieDirections(TotalCost(usage, model_name))
  /\ pc = "cost_call"
  /\ RunInit

\* Line 182 evaluates the default entry before the lookup: it raises
\* KeyError when the table has no such key.
CostRaises == "gpt-4o" \notin DOMAIN MODEL_PRICING

CostCall ==
  /\ pc = "cost_call"
  /\ cost' = calculate_cost(usage, model_name, tie_up)
  /\ raised' = IF CostRaises THEN "KeyError" ELSE ""
  /\ pc' = "cost_done"
  /\ UNCHANGED <<args, lower, tree, tree_changes, collection, prompt, result, usage,
                 tie_up, api_outcome, stdout, exit_code, api_calls, stages>>

\* Usages that raise one token count of u and keep the other.
Raised(u) ==
  {v \in [prompt_tokens : Tokens, completion_tokens : Tokens] :
     \/ v.prompt_tokens > u.prompt_tokens
          /\ v.completion_tokens = u.completion_tokens
     \/ v.completion_tokens > u.completion_tokens
          /\ v.prompt_tokens = u.prompt_tokens}

\* calculate_cost is called again, for the same model, with one count raised.
CostCallRaised ==
  /\ pc = "cost_done"
  /\ \E v \in Raised(usage) :
       \E t \in TieDirections(TotalCost(v, model_name)) :
         /\ lower' = [usage |-> usage, cost |-> cost]
         /\ usage' = v
         /\ tie_up' = t
         /\ cost' = calculate_cost(v, model_name, t)
  /\ raised' = IF CostRaises THEN "KeyError" ELSE ""
  /\ pc' = "cost_raised"
  /\ UNCHANGED <<args, tree, tree_changes, collection, prompt, result,
                 api_outcome, stdout, exit_code, api_calls, stages>>

NextCost ==
  \/ CostCall
  \/ CostCallRaised

SpecCost == InitCost /\ [][NextCost]_vars

\* ================================================================ claims
Range(seq) == {seq[i] : i \in 1..Len(seq)}

Printed(line) == line \in Range(stdout)

IsPrefix(a, b) == Len(a) <= Len(b) /\ a = SubSeq(b, 1, Len(a))

NoKeySupplied == api_key_flag = "" /\ api_key_env = ""

\* The run got a DiffAnalysis / diff text back and it was empty.
EmptyDiffCollected == pc = "done" /\ "collect" \in Range(stages) /\ DiffIsEmpty(diff)

NoChangesLines == {"No changes detected by git diff.", "No changes detected to analyze."}

\* C1: a run whose collected diff is empty prints that no changes were
\* detected, exits with status 0 and never calls the chat-completion
\* endpoint.
C1_EmptyDiffReportsNoChanges ==
  EmptyDiffCollected =>
    /\ \E line \in NoChangesLines : Printed(line)
    /\ exit_code = 0
    /\ api_calls = 0

\* The ways a run ends that the exit-code contract names.
RunSucceeded == pc = "done" /\ "report" \in Range(stages)
CollectorFailed ==
  /\ pc = "done"
  /\ git_log # <<>>
  /\ "collect" \notin Range(stages)
ApiFailed == pc = "done" /\ api_outcome = "error"
CredentialsMissing == pc = "done" /\ NoKeySupplied

\* C2: the exit code is 0 on success or when there is nothing to analyze,
\* and 1 on missing credentials, collector failure or API failure.
C2_ExitCodes ==
  /\ (RunSucceeded \/ EmptyDiffCollected) => exit_code = 0
  /\ (CredentialsMissing \/ CollectorFailed \/ ApiFailed) => exit_code = 1

\* (prompt_tokens / 1_000_000) * prompt_rate
\*   + (completion_tokens / 1_000_000) * completion_rate, in 10^-8 dollar.
ExactCost(u, m) ==
  u.prompt_tokens * MODEL_PRICING[m].prompt
    + u.completion_tokens * MODEL_PRICING[m].completion

Abs(x) == IF x < 0 THEN -x ELSE x

\* C3: for a model of the table calculate_cost returns the exact cost
\* rounded to whole micro-dollars (no other multiple of 10^-6 is nearer),
\* and 1,000,000 + 1,000,000 tokens of gpt-4o cost 12.50.
C3_CostFormula ==
  (pc = "cost_done" /\ model_name \in DOMAIN MODEL_PRICING) =>
    /\ raised = ""
    /\ Abs(100 * cost - ExactCost(usage, model_name)) <= 50
    /\ (model_name = "gpt-4o" /\ usage.prompt_tokens = MILLION
          /\ usage.completion_tokens = MILLION) => cost = 12500000

C3_Witness ==
  /\ pc = "cost_done"
  /\ model_name = "gpt-4o"
  /\ usage.prompt_tokens = MILLION
  /\ usage.completion_tokens = MILLION
  /\ cost = 12500000

\* C4: for a model identifier the table does not hold, calculate_cost does
\* not raise and returns what it returns for "gpt-4o" on the same counts.
C4_UnknownModelUsesDefault ==
  (pc = "cost_done" /\ model_name \notin DOMAIN MODEL_PRICING) =>
    /\ raised = ""
    /\ cost = calculate_cost(usage, "gpt-4o", tie_up)
    /\ Abs(100 * cost - ExactCost(usage, "gpt-4o")) <= 50

C4_Witness ==
  /\ pc = "cost_done"
  /\ model_name = "gpt-3.5-turbo"
  /\ usage.prompt_tokens = 3
  /\ usage.completion_tokens = 1
  /\ cost = 18

CredentialLines ==
  {"An error occurred: OPENAI_API_KEY not found in environment variables or provided via --api-key argument",
   "Error: OpenAI API key not provided. Set OPENAI_API_KEY env var or use --api-key."}

\* C5: with no API key from flag or environment the run ends with a
\* missing-credential error and the chat-completion endpoint is never
\* called (nor is anything collected or assembled before the error).
C5_MissingKeyFailsBeforeCall ==
  NoKeySupplied =>
    /\ api_calls = 0
    /\ pc \in {"start", "done"}
    /\ pc = "done" =>
         /\ Len(stdout) = 1
         /\ stdout[1] \in CredentialLines
         /\ git_log = <<>>
         /\ stages = <<>>

C5_Witness ==
  /\ NoKeySupplied
  /\ pc = "done"
  /\ script = "code_check"
  /\ raised = "ValueError"
  /\ api_calls = 0

ShowEntries == {k \in 1..Len(git_log) : git_log[k].cmd = "show"}

\* C6: a git show that exits non-zero does not make collect_diff_context
\* raise: the file stays in files_changed and gets no entry in
\* file_contexts, the files whose content was retrieved have their entry,
\* and the run goes on to return the DiffAnalysis.
C6_FailedShowIsOmitted ==
  script = "code_check" =>
    /\ \A k \in ShowEntries :
         /\ git_log[k].rc # 0 =>
              /\ git_log[k].path \in Range(files)
              /\ git_log[k].path \notin Keys(file_contexts)
         /\ (git_log[k].rc = 0 /\ git_log[k].out # "") =>
              [path |-> git_log[k].path, content |-> git_log[k].out]
                 \in Range(file_contexts)
    /\ (pc = "done" /\ ShowEntries # {}) => "collect" \in Range(stages)

C6_Witness ==
  /\ script = "code_check"
  /\ "collect" \in Range(stages)
  /\ \E k \in ShowEntries : git_log[k].rc # 0 /\ git_log[k].path = "a.py"
  /\ Keys(file_contexts) = {"b.py"}
  /\ files = <<"a.py", "b.py">>

Pipeline == <<"collect", "assemble", "call", "report">>

ReportPrinted ==
  \/ Printed("=== AI Analysis ===")
  \/ Printed("=== Cost of Usage ===")
  \/ Printed("=== AI Code Convention Analysis ===")

\* C7: the stages run in the order collect, assemble, call, report, each at
\* most once; the endpoint is called at most once and only with a collected
\* diff and an assembled prompt; the report is printed only after the call
\* returned a completion.
C7_LinearPipeline ==
  /\ IsPrefix(stages, Pipeline)
  /\ api_calls <= 1
  /\ api_calls = 1 <=> "call" \in Range(stages)
  /\ api_calls = 1 => (prompt # NoPrompt /\ ~DiffIsEmpty(diff))
  /\ ReportPrinted => (api_outcome = "ok" /\ stages = Pipeline /\ pc = "done")

C7_Witness ==
  /\ pc = "done"
  /\ stages = Pipeline
  /\ api_calls = 1
  /\ ReportPrinted
  /\ script = "code_check"

DiffListingCmds == {"diff --name-only", "diff", "diff HEAD"}

\* Statuses the scripts do not expect of the diff-listing command: none but
\* 0 under check=True, none but 0 and 1 in get_git_diff_against_head.
UnexpectedStatus(e) ==
  IF e.cmd = "diff HEAD" THEN e.rc \notin {0, 1} ELSE e.rc # 0

DiffListingFailed ==
  \E k \in 1..Len(git_log) :
    git_log[k].cmd \in DiffListingCmds /\ UnexpectedStatus(git_log[k])

\* C8: when the diff-listing git command is missing or ends with an
\* unexpected status, collection fails: no diff is returned, no prompt is
\* assembled and no request is sent.
C8_DiffListingFailureStopsRun ==
  DiffListingFailed =>
    /\ pc = "done"
    /\ raised \in {"FileNotFoundError", "CalledProcessError", "RuntimeError"}
    /\ stages = <<>>
    /\ prompt = NoPrompt
    /\ api_calls = 0

C8_Witness ==
  /\ script = "conventions_checker"
  /\ pc = "done"
  /\ Len(git_log) = 2
  /\ git_log[2].cmd = "diff HEAD"
  /\ git_log[2].rc = 128
  /\ exit_code = 1
  /\ api_calls = 0

ApiErrorLines ==
  {ApiErrorText, "An error occurred: " \o ApiErrorText,
   "An unexpected error occurred: " \o ApiErrorText}

\* C9: when the chat-completion call raises, a line describing the API
\* error is printed, the run ends in a handler and no report is printed.
C9_ApiErrorIsPrinted ==
  ApiFailed =>
    /\ \E line \in ApiErrorLines : Printed(line)
    /\ exit_code \in {0, 1}
    /\ ~ReportPrinted

\* C10: in every DiffAnalysis collect_diff_context returns, the keys of
\* file_contexts are paths of files_changed.
C10_ContextKeysAreChangedFiles ==
  (script = "code_check" /\ "collect" \in Range(stages)) =>
    Keys(file_contexts) \subseteq Range(files)

C10_Witness ==
  /\ script = "code_check"
  /\ "collect" \in Range(stages)
  /\ file_contexts # <<>>
  /\ Keys(file_contexts) # Range(files)

\* C11: for a fixed model, raising prompt_tokens or completion_tokens while
\* the other count stays never lowers the cost calculate_cost returns,
\* whichever way the rounding of either call goes.
C11_CostIsMonotone ==
  pc = "cost_raised" =>
    /\ \/ /\ usage.prompt_tokens > lower.usage.prompt_tokens
          /\ usage.completion_tokens = lower.usage.completion_tokens
       \/ /\ usage.completion_tokens > lower.usage.completion_tokens
          /\ usage.prompt_tokens = lower.usage.prompt_tokens
    /\ cost >= lower.cost

\* gpt-4.1-nano: 1 + 1 tokens cost exactly 0.5 micro-dollar, a tie that went
\* up to 1; 2 + 1 tokens cost 0.6 micro-dollar, which rounds to 1 as well.
C11_Witness ==
  /\ pc = "cost_raised"
  /\ model_name = "gpt-4.1-nano"
  /\ lower.usage = [prompt_tokens |-> 1, completion_tokens |-> 1]
  /\ lower.cost = 1
  /\ usage = [prompt_tokens |-> 2, completion_tokens |-> 1]
  /\ cost = 1

\* C13: calculate_cost returns a non-negative cost, without raising, for
\* every model identifier, in the price table or not, and all non-negative
\* token counts.
C13_CostIsNonNegative ==
  pc \in {"cost_done", "cost_raised"} =>
    /\ usage.prompt_tokens >= 0
    /\ usage.completion_tokens >= 0
    /\ raised = ""
    /\ cost >= 0

C13_Witness ==
  /\ pc = "cost_done"
  /\ model_name = "o3"
  /\ usage = [prompt_tokens |-> 0, completion_tokens |-> MILLION]
  /\ cost = 10000000

\* The paths a diff text mentions.
DiffPaths(d) == {d[i].path : i \in 1..Len(d)}

\* C14: files_changed and diff_content come from two git invocations.  When
\* the working tree does not change during collection, the returned
\* DiffAnalysis has both describe the same set of files; a change between
\* the two invocations can make them differ (C14_Witness: the diff mentions
\* a file that files_changed does not list).
C14_SameFilesWithoutTreeChange ==
  (script = "code_check" /\ "collect" \in Range(stages) /\ tree_changes = 0) =>
    /\ DiffPaths(diff) = Range(files)
    /\ DiffIsEmpty(diff) <=> files = <<>>

C14_Witness ==
  /\ script = "code_check"
  /\ "collect" \in Range(stages)
  /\ tree_changes > 0
  /\ Len(git_log) >= 2
  /\ git_log[1].cmd = "diff --name-only" /\ git_log[1].rc = 0
  /\ git_log[2].cmd = "diff" /\ git_log[2].rc = 0
  /\ files = <<"a.py">>
  /\ DiffPaths(diff) = {"a.py", "b.py"}

\* The git commands of a conventions-checker run that produce the diff.
CV_DiffEntries ==
  {k \in 1..Len(git_log) : git_log[k].cmd \notin {"rev-parse", "merge-base"}}

\* The exit status of a finished conventions-checker run as a function of
\* the key, the git executable, the status of git diff, the working tree and
\* the API outcome; the base branch and merge_base_sha are not among them.
CV_ExitWithoutBaseBranch ==
  IF NoKeySupplied \/ ~git_installed THEN 1
  ELSE IF \E k \in CV_DiffEntries : git_log[k].rc \notin {0, 1} THEN 1
  ELSE IF DiffIsEmpty(DiffText(tree)) THEN 0
  ELSE IF api_outcome = "ok" THEN 0 ELSE 1

====
